---------------------------- MODULE Spec2Model ----------------------------
(***************************************************************************)
(* A model of check_slots.py: the retrying poller get_facility_slots, the  *)
(* parser extract_available_slots, the date-range driver check_facilities, *)
(* the formatter create_telegram_summary, the writer save_results, the     *)
(* notifier send_telegram_message and the script's __main__ block.         *)
(*                                                                         *)
(* Python values are tagged records, so that 200 and "200" are different   *)
(* values that can still be compared, as Python compares them. A dict of   *)
(* a payload is a function on its keys; the insertion-ordered mapping the  *)
(* driver builds is the sequence of its items. A string the formatter      *)
(* builds is the sequence of its code points.                              *)
(*                                                                         *)
(* Six specifications share the variables:                                 *)
(*   SpecScan    check_facilities with the poller calls it makes, one step *)
(*               per GET (with what the attempt does with the answer), per *)
(*               sleep and per loop body;                                  *)
(*   SpecParse   extract_available_slots applied to bounded payloads;      *)
(*   SpecNotify  send_telegram_message, one step per post;                 *)
(*   SpecFormat  create_telegram_summary applied to bounded mappings;      *)
(*   SpecMain    the __main__ block: the scan, save_results, the summary   *)
(*               and its notification, and the except clause;              *)
(*   SpecCount   the scan with every request counted, weakly fair, over    *)
(*               answers that never carry a slot.                          *)
(* The variables marked "observed" are no variables of the program: they   *)
(* record the requests, sleeps and notifier calls it performs.             *)
(*                                                                         *)
(* datetime.now() answers the same day throughout a run (the run does not  *)
(* cross midnight). response.json() on a body that is not JSON raises the  *)
(* JSONDecodeError of requests, a RequestException. In SpecMain the two    *)
(* Telegram credentials, fixed when the module is loaded and read by the   *)
(* notifier only, are drawn where the notifier is called.                  *)
(***************************************************************************)
EXTENDS Integers, Sequences, FiniteSets, TLC

VARIABLES
    pc,                  \* position of the running function
    fi,                  \* check_facilities: index of `facility` in FACILITIES
    now,                 \* the calendar day datetime.now() answers
    current_date,        \* check_facilities: current_date
    dates_checked,       \* check_facilities: dates_checked
    date_str,            \* check_facilities: date_str, the poller's argument
    retry_count,         \* get_facility_slots: retry_count of the innermost call
    data,                \* check_facilities: data, the poller's return value
    all_available_slots, \* check_facilities: the nested mapping being built
    raisedBy,            \* the function an exception escaped from, or "none"
    resp,                \* observed: what the latest GET of the booking API got
    gets,                \* observed: GET requests issued by the current poller call
    sleeps,              \* observed: RETRY_DELAY sleeps of the current poller call
    sleepsSince,         \* observed: the sleeps performed since the latest GET
    onlyStatus,          \* observed: every attempt of this call got a non-accepted status payload
    fdates,              \* observed: the dates passed to the poller for this facility
    stopSeen,            \* observed: [what, f]: the poller returned None ("failure") or a 2008 payload ("sentinel") for facility index f
    scanned,             \* observed: the facilities a GET was issued for
    scanOrder,           \* observed: the facilities in the order the for loop took them
    totalGets,           \* observed: GET requests issued by the run, where they are counted
    exc,                 \* the exception raised and not yet handled, or caught as `e`; PyNone for none
    response_data,       \* extract_available_slots: its argument
    available_slots,     \* extract_available_slots: its result
    TELEGRAM_BOT_TOKEN,  \* module global read from the environment
    TELEGRAM_CHAT_ID,    \* module global read from the environment
    message,             \* send_telegram_message: its argument
    messages,            \* send_telegram_message: the chunks of the message
    msg_i,               \* send_telegram_message: index of `msg` in messages
    posts,               \* observed: the requests.post calls made: [chunk, text, outcome]
    result,              \* send_telegram_message: its return value
    all_slots,           \* create_telegram_summary, save_results, __main__: all_slots
    lines,               \* create_telegram_summary: lines
    summary,             \* __main__: summary, the formatter's return value
    file,                \* the document in available_slots.json, PyNone for no file
    caller,              \* __main__: the call of the notifier under way: "summary", "error" or "none"
    notified             \* observed: the calls of send_telegram_message made by __main__: [what, message]

vars == <<pc, fi, now, current_date, dates_checked, date_str, retry_count, data,
          all_available_slots, raisedBy, resp, gets, sleeps, sleepsSince,
          onlyStatus, fdates, stopSeen, scanned, response_data,
          available_slots, TELEGRAM_BOT_TOKEN, TELEGRAM_CHAT_ID, message,
          messages, msg_i, posts, result, scanOrder, totalGets, exc, all_slots,
          lines, summary, file, caller, notified>>

scanVars == <<fi, now, current_date, dates_checked, date_str, retry_count, data,
              all_available_slots, raisedBy, resp, gets, sleeps, sleepsSince,
              onlyStatus, fdates, stopSeen, scanned, scanOrder, totalGets, exc>>
parseVars == <<response_data, available_slots>>
notifyVars == <<TELEGRAM_BOT_TOKEN, TELEGRAM_CHAT_ID, message, messages, msg_i,
                posts, result>>
formatVars == <<all_slots, lines, summary>>
mainVars == <<file, caller, notified>>

---------------------------------------------------------------------------
(* Python values *)

PyNone == [t |-> "none"]
PyInt(n) == [t |-> "int", v |-> n]
PyStr(s) == [t |-> "str", v |-> s]
PyBool(b) == [t |-> "bool", v |-> b]
PyList(s) == [t |-> "list", v |-> s]
PyDict(f) == [t |-> "dict", v |-> f]

\* bool(x)
Truthy(x) ==
    CASE x.t = "none" -> FALSE
      [] x.t = "bool" -> x.v
      [] x.t = "int"  -> x.v # 0
      [] x.t = "str"  -> x.v # ""
      [] x.t = "list" -> x.v # <<>>
      [] x.t = "dict" -> DOMAIN x.v # {}

\* d.get(k, dflt) on a dict
Get(d, k, dflt) == IF k \in DOMAIN d.v THEN d.v[k] ELSE dflt

EmptyDict == PyDict([k \in {} |-> PyNone])

\* A dict literal; a key whose value is Absent is left out.
Absent == [t |-> "absent"]
MkDict(f) == PyDict([k \in {j \in DOMAIN f : f[j] # Absent} |-> f[k]])

---------------------------------------------------------------------------
(* Module constants *)

FACILITIES == <<"teckgheecc_BADMINTONCOURTS", "BidadariCC_BADMINTONCOURTS",
                "kallangcc_BADMINTONCOURTS", "braddellheightscc_BADMINTONCOURTS",
                "canberracc_BADMINTONCOURTS", "potongpasircc_BADMINTONCOURTS">>
DELAY_BETWEEN_REQUESTS == 3
MAX_RETRIES == 3
RETRY_DELAY == 20
max_length == 4000
SAFETY_LIMIT == 5

---------------------------------------------------------------------------
(* Calendar: datetime, timedelta(days=1), strftime("%d/%m/%Y") *)

IsLeap(y) == (y % 4 = 0 /\ y % 100 # 0) \/ y % 400 = 0

DaysInMonth(y, m) ==
    IF m = 2 THEN (IF IsLeap(y) THEN 29 ELSE 28)
    ELSE IF m \in {4, 6, 9, 11} THEN 30 ELSE 31

\* dt + timedelta(days=1)
NextDay(dt) ==
    IF dt.d < DaysInMonth(dt.y, dt.m) THEN [dt EXCEPT !.d = dt.d + 1]
    ELSE IF dt.m < 12 THEN [y |-> dt.y, m |-> dt.m + 1, d |-> 1]
    ELSE [y |-> dt.y + 1, m |-> 1, d |-> 1]

\* dt + timedelta(days=k)
RECURSIVE DaysAfter(_, _)
DaysAfter(dt, k) == IF k = 0 THEN dt ELSE NextDay(DaysAfter(dt, k - 1))

\* A string is the sequence of its character codes: "0" is 48, "/" is 47.
Digit(n) == 48 + n
Slash == 47

\* dt.strftime("%d/%m/%Y"): zero-padded day and month, four-digit year
strftime(dt) ==
    << Digit(dt.d \div 10), Digit(dt.d % 10), Slash,
       Digit(dt.m \div 10), Digit(dt.m % 10), Slash,
       Digit(dt.y \div 1000), Digit((dt.y \div 100) % 10),
       Digit((dt.y \div 10) % 10), Digit(dt.y % 10) >>

---------------------------------------------------------------------------
(* Strings: a Python str is the sequence of its code points *)

\* The code points of the str literals and str values the program formats.
Chars(s) ==
    CASE s = "teckgheecc_BADMINTONCOURTS" ->
           <<116, 101, 99, 107, 103, 104, 101, 101, 99, 99, 95, 66, 65, 68,
             77, 73, 78, 84, 79, 78, 67, 79, 85, 82, 84, 83>>
      [] s = "BidadariCC_BADMINTONCOURTS" ->
           <<66, 105, 100, 97, 100, 97, 114, 105, 67, 67, 95, 66, 65, 68,
             77, 73, 78, 84, 79, 78, 67, 79, 85, 82, 84, 83>>
      [] s = "kallangcc_BADMINTONCOURTS" ->
           <<107, 97, 108, 108, 97, 110, 103, 99, 99, 95, 66, 65, 68, 77,
             73, 78, 84, 79, 78, 67, 79, 85, 82, 84, 83>>
      [] s = "braddellheightscc_BADMINTONCOURTS" ->
           <<98, 114, 97, 100, 100, 101, 108, 108, 104, 101, 105, 103, 104,
             116, 115, 99, 99, 95, 66, 65, 68, 77, 73, 78, 84, 79, 78, 67,
             79, 85, 82, 84, 83>>
      [] s = "canberracc_BADMINTONCOURTS" ->
           <<99, 97, 110, 98, 101, 114, 114, 97, 99, 99, 95, 66, 65, 68, 77,
             73, 78, 84, 79, 78, 67, 79, 85, 82, 84, 83>>
      [] s = "potongpasircc_BADMINTONCOURTS" ->
           <<112, 111, 116, 111, 110, 103, 112, 97, 115, 105, 114, 99, 99,
             95, 66, 65, 68, 77, 73, 78, 84, 79, 78, 67, 79, 85, 82, 84, 83>>
      [] s = "Teck Ghee CC" ->
           <<84, 101, 99, 107, 32, 71, 104, 101, 101, 32, 67, 67>>
      [] s = "Bidadari CC" ->
           <<66, 105, 100, 97, 100, 97, 114, 105, 32, 67, 67>>
      [] s = "Kallang CC" ->
           <<75, 97, 108, 108, 97, 110, 103, 32, 67, 67>>
      [] s = "Braddell Heights CC" ->
           <<66, 114, 97, 100, 100, 101, 108, 108, 32, 72, 101, 105, 103,
             104, 116, 115, 32, 67, 67>>
      [] s = "Canberra CC" ->
           <<67, 97, 110, 98, 101, 114, 114, 97, 32, 67, 67>>
      [] s = "Potong Pasir CC" ->
           <<80, 111, 116, 111, 110, 103, 32, 80, 97, 115, 105, 114, 32, 67,
             67>>
      [] s = "Court 1" ->
           <<67, 111, 117, 114, 116, 32, 49>>
      [] s = "Court 2" ->
           <<67, 111, 117, 114, 116, 32, 50>>
      [] s = "Unknown" ->
           <<85, 110, 107, 110, 111, 119, 110>>
      [] s = "7:00 PM - 8:00 PM" ->
           <<55, 58, 48, 48, 32, 80, 77, 32, 45, 32, 56, 58, 48, 48, 32, 80,
             77>>
      [] s = "8:00 PM - 9:00 PM" ->
           <<56, 58, 48, 48, 32, 80, 77, 32, 45, 32, 57, 58, 48, 48, 32, 80,
             77>>
      [] s = "CC" ->
           <<67, 67>>
      [] s = "None" ->
           <<78, 111, 110, 101>>
      [] s = "True" ->
           <<84, 114, 117, 101>>
      [] s = "False" ->
           <<70, 97, 108, 115, 101>>
      [] s = "" ->
           <<>>
      [] s = " <b>OnePA Badminton Slots Available</b> " ->
           <<32, 60, 98, 62, 79, 110, 101, 80, 65, 32, 66, 97, 100, 109,
             105, 110, 116, 111, 110, 32, 83, 108, 111, 116, 115, 32, 65,
             118, 97, 105, 108, 97, 98, 108, 101, 60, 47, 98, 62, 32>>
      [] s = " Checked on: " ->
           <<32, 67, 104, 101, 99, 107, 101, 100, 32, 111, 110, 58, 32>>
      [] s = "<b>" ->
           <<60, 98, 62>>
      [] s = "</b>" ->
           <<60, 47, 98, 62>>
      [] s = " <b>" ->
           <<32, 60, 98, 62>>
      [] s = " " ->
           <<32>>
      [] s = "  " ->
           <<32, 32>>
      [] s = "    " ->
           <<32, 32, 32, 32>>
      [] s = ":" ->
           <<58>>
      [] s = " <b>No available slots found</b>" ->
           <<32, 60, 98, 62, 78, 111, 32, 97, 118, 97, 105, 108, 97, 98,
             108, 101, 32, 115, 108, 111, 116, 115, 32, 102, 111, 117, 110,
             100, 60, 47, 98, 62>>
      [] s = " <b>Total: " ->
           <<32, 60, 98, 62, 84, 111, 116, 97, 108, 58, 32>>
      [] s = " slots across " ->
           <<32, 115, 108, 111, 116, 115, 32, 97, 99, 114, 111, 115, 115,
             32>>
      [] s = " facilities</b>" ->
           <<32, 102, 97, 99, 105, 108, 105, 116, 105, 101, 115, 60, 47, 98,
             62>>
      [] s = " = Peak hours" ->
           <<32, 61, 32, 80, 101, 97, 107, 32, 104, 111, 117, 114, 115>>
      [] s = " <b>Error running OnePA checker</b>" ->
           <<32, 60, 98, 62, 69, 114, 114, 111, 114, 32, 114, 117, 110, 110,
             105, 110, 103, 32, 79, 110, 101, 80, 65, 32, 99, 104, 101, 99,
             107, 101, 114, 60, 47, 98, 62>>
      [] s = "'list' object has no attribute 'get'" ->
           <<39, 108, 105, 115, 116, 39, 32, 111, 98, 106, 101, 99, 116, 32,
             104, 97, 115, 32, 110, 111, 32, 97, 116, 116, 114, 105, 98,
             117, 116, 101, 32, 39, 103, 101, 116, 39>>
      [] s = "'NoneType' object has no attribute 'get'" ->
           <<39, 78, 111, 110, 101, 84, 121, 112, 101, 39, 32, 111, 98, 106,
             101, 99, 116, 32, 104, 97, 115, 32, 110, 111, 32, 97, 116, 116,
             114, 105, 98, 117, 116, 101, 32, 39, 103, 101, 116, 39>>
      [] s = "[Errno 13] Permission denied: 'available_slots.json'" ->
           <<91, 69, 114, 114, 110, 111, 32, 49, 51, 93, 32, 80, 101, 114,
             109, 105, 115, 115, 105, 111, 110, 32, 100, 101, 110, 105, 101,
             100, 58, 32, 39, 97, 118, 97, 105, 108, 97, 98, 108, 101, 95,
             115, 108, 111, 116, 115, 46, 106, 115, 111, 110, 39>>

NL == 10
Badminton == 127992   \* U+1F3F8, line 228
Calendar == 128197    \* U+1F4C5, line 229
Office == 127970      \* U+1F3E2, line 238
TearOff == 128198     \* U+1F4C6, line 244
Star == 11088         \* U+2B50, lines 254, 264
Cross == 10060        \* U+274C, lines 260, 307
Tick == 9989          \* U+2705, line 262

\* str(n) of an int n >= 0
RECURSIVE Decimal(_)
Decimal(n) == IF n < 10 THEN <<Digit(n)>> ELSE Decimal(n \div 10) \o <<Digit(n % 10)>>

\* str(v), as an f-string formats a value
Str(v) ==
    CASE v.t = "str" -> Chars(v.v)
      [] v.t = "int" -> Decimal(v.v)
      [] v.t = "bool" -> IF v.v THEN Chars("True") ELSE Chars("False")
      [] v.t = "none" -> Chars("None")

\* a < b on str: the code points are compared from the left, and a proper
\* prefix is the smaller
RECURSIVE LexLess(_, _)
LexLess(a, b) ==
    IF b = <<>> THEN FALSE
    ELSE IF a = <<>> THEN TRUE
    ELSE IF Head(a) # Head(b) THEN Head(a) < Head(b)
    ELSE LexLess(Tail(a), Tail(b))

RECURSIVE Flatten(_)
Flatten(ss) == IF ss = <<>> THEN <<>> ELSE Head(ss) \o Flatten(Tail(ss))

\* sep.join(strs)
RECURSIVE Join(_, _)
Join(strs, sep) ==
    IF strs = <<>> THEN <<>>
    ELSE IF Len(strs) = 1 THEN strs[1]
    ELSE strs[1] \o sep \o Join(Tail(strs), sep)

---------------------------------------------------------------------------
(* extract_available_slots *)

\* IsAvailableSlot with `and` for `or`
IsAvailableSlot_Both(slot) ==
    /\ Truthy(Get(slot, "isAvailable", PyNone))
    /\ Get(slot, "availabilityStatus", PyNone) = PyStr("Available")

\* line 137: slot.get('isAvailable') or slot.get('availabilityStatus') == 'Available'
IsAvailableSlot(slot) ==
    \/ Truthy(Get(slot, "isAvailable", PyNone))
    \/ Get(slot, "availabilityStatus", PyNone) = PyStr("Available")

\* lines 138-144: the record appended for an available slot
SlotRecord(resource_name, slot) ==
    [court     |-> resource_name,
     time      |-> Get(slot, "timeRangeName", PyNone),
     startTime |-> Get(slot, "startTime", PyNone),
     endTime   |-> Get(slot, "endTime", PyNone),
     isPeak    |-> Get(slot, "isPeak", PyBool(FALSE))]

\* lines 135-144: the inner loop over one resource's slot_list
RECURSIVE SlotsOfResource(_, _)
SlotsOfResource(resource_name, slot_list) ==
    IF slot_list = <<>> THEN <<>>
    ELSE (IF IsAvailableSlot(Head(slot_list))
          THEN <<SlotRecord(resource_name, Head(slot_list))>>
          ELSE <<>>)
         \o SlotsOfResource(resource_name, Tail(slot_list))

\* lines 131-144: the outer loop over resource_list
RECURSIVE SlotsOfResources(_)
SlotsOfResources(resource_list) ==
    IF resource_list = <<>> THEN <<>>
    ELSE LET resource == Head(resource_list)
         IN  SlotsOfResource(Get(resource, "resourceName", PyStr("Unknown")),
                             Get(resource, "slotList", PyList(<<>>)).v)
             \o SlotsOfResources(Tail(resource_list))

\* Whether the walk of lines 128-137 raises: .get on a value that is no dict
\* (AttributeError), or a for loop over a value that is no list (TypeError:
\* the payloads of this model hold a list or None there).
WalkRaises(response) ==
    \/ response.t # "dict"
    \/ LET resource_list == Get(response, "resourceList", PyList(<<>>))
       IN  \/ resource_list.t # "list"
           \/ \E i \in DOMAIN resource_list.v :
                LET resource == resource_list.v[i]
                IN  \/ resource.t # "dict"
                    \/ LET slot_list == Get(resource, "slotList", PyList(<<>>))
                       IN  \/ slot_list.t # "list"
                           \/ \E j \in DOMAIN slot_list.v : slot_list.v[j].t # "dict"

\* type(v).__name__
TypeName(v) ==
    CASE v.t = "none" -> "NoneType"
      [] v.t = "bool" -> "bool"
      [] v.t = "int" -> "int"
      [] v.t = "str" -> "str"
      [] v.t = "list" -> "list"
      [] v.t = "dict" -> "dict"

\* v.get(...) on a value v that is no dict
AttributeErrorOn(v) ==
    [type |-> "AttributeError",
     text |-> "'" \o TypeName(v) \o "' object has no attribute 'get'"]

\* `for x in v` on a value v that is None
NotIterable(v) ==
    [type |-> "TypeError", text |-> "'" \o TypeName(v) \o "' object is not iterable"]

\* The exception of the first place of lines 128-137 that raises.
WalkException(response) ==
    IF response.t # "dict" THEN AttributeErrorOn(response)
    ELSE LET resource_list == Get(response, "resourceList", PyList(<<>>))
         IN  IF resource_list.t # "list" THEN NotIterable(resource_list)
             ELSE LET Bad(i) ==
                          LET resource == resource_list.v[i]
                          IN  \/ resource.t # "dict"
                              \/ LET slot_list == Get(resource, "slotList", PyList(<<>>))
                                 IN  \/ slot_list.t # "list"
                                     \/ \E j \in DOMAIN slot_list.v :
                                            slot_list.v[j].t # "dict"
                      i == CHOOSE k \in DOMAIN resource_list.v :
                              Bad(k) /\ \A l \in 1..(k - 1) : ~Bad(l)
                      resource == resource_list.v[i]
                  IN  IF resource.t # "dict" THEN AttributeErrorOn(resource)
                      ELSE LET slot_list == Get(resource, "slotList", PyList(<<>>))
                           IN  IF slot_list.t # "list" THEN NotIterable(slot_list)
                               ELSE AttributeErrorOn(
                                        slot_list.v[CHOOSE j \in DOMAIN slot_list.v :
                                            /\ slot_list.v[j].t # "dict"
                                            /\ \A l \in 1..(j - 1) :
                                                  slot_list.v[l].t = "dict"])

\* extract_available_slots(response_data): [raised, value]. response_data is
\* None or a dict (the poller returns nothing else).
extract_available_slots(rd) ==
    IF ~Truthy(rd) \/ "response" \notin DOMAIN rd.v
    THEN [raised |-> FALSE, value |-> <<>>]
    ELSE LET response == rd.v["response"]
         IN  IF WalkRaises(response)
             THEN [raised |-> TRUE, value |-> <<>>]
             ELSE [raised |-> FALSE,
                   value |-> SlotsOfResources(
                                 Get(response, "resourceList", PyList(<<>>)).v)]

---------------------------------------------------------------------------
(* Payloads of the booking API *)

\* A slot of the expected response shape; its time label names its place.
MkSlot(isAvailable, availabilityStatus, label, isPeak) ==
    MkDict([isAvailable |-> isAvailable, availabilityStatus |-> availabilityStatus,
            timeRangeName |-> label, isPeak |-> isPeak])

MkResource(name, slot_list) == MkDict([resourceName |-> name, slotList |-> slot_list])

\* The `response` values the polled payloads carry: key absent, JSON null, no
\* resource, one booked slot, one available slot.
BookedResponse ==
    MkDict([resourceList |-> PyList(<<MkResource(PyStr("Court 1"),
                PyList(<<MkSlot(PyBool(FALSE), PyStr("Booked"),
                                PyStr("7:00 PM - 8:00 PM"), PyBool(TRUE))>>))>>),
            outletDivison |-> PyStr("CC"),
            price |-> MkDict([peak |-> PyInt(7)])])

FreeResponse ==
    MkDict([resourceList |-> PyList(<<MkResource(PyStr("Court 1"),
                PyList(<<MkSlot(PyBool(TRUE), Absent,
                                PyStr("7:00 PM - 8:00 PM"), PyBool(TRUE))>>))>>),
            outletDivison |-> PyStr("CC"),
            price |-> MkDict([peak |-> PyInt(7)])])

MkPayload(code, response) == MkDict([responseStatusCode |-> code, response |-> response])

\* What one GET can get: a transport error, a non-2xx answer, a body that is
\* not JSON (requests raises its JSONDecodeError, a RequestException), or a
\* decoded JSON value: an array, null, or an object.
RequestExceptions == {"ConnectionError", "HTTPError", "JSONDecodeError"}

Failed(kind) == [kind |-> kind, body |-> PyNone]
Decoded(body) == [kind |-> "json", body |-> body]
NoResponse == [kind |-> "none", body |-> PyNone]

\* The decoded objects of this model: accepted codes as a number and as a
\* string, with and without a `response`; and two codes that are not accepted.
AcceptedPayloads ==
    {MkPayload(PyInt(200), r) : r \in {Absent, PyNone, BookedResponse, FreeResponse}}
    \cup {MkPayload(PyStr("200"), BookedResponse)}
    \cup {MkPayload(PyInt(2008), r) : r \in {Absent, FreeResponse}}
    \cup {MkPayload(PyStr("2008"), Absent)}

OtherPayloads == {MkPayload(Absent, Absent), MkPayload(PyInt(500), Absent)}

Responses ==
    {Failed(k) : k \in RequestExceptions}
    \cup {Decoded(PyList(<<>>))}
    \cup {Decoded(p) : p \in AcceptedPayloads \cup OtherPayloads}

---------------------------------------------------------------------------
(* get_facility_slots *)

\* NotAccepted without the comparison with "2008"
NotAccepted_NoString2008(response_status) ==
    /\ (response_status # PyInt(200) /\ response_status # PyStr("200"))
    /\ response_status # PyInt(2008)

\* line 91: the status test that sends the call to the retry branch
NotAccepted(response_status) ==
    /\ (response_status # PyInt(200) /\ response_status # PyStr("200"))
    /\ (response_status # PyInt(2008) /\ response_status # PyStr("2008"))

\* RetryLeft off by one: <= for <
RetryLeft_OneMore(rc) == rc <= MAX_RETRIES

\* lines 92, 104: whether a retry is left
RetryLeft(rc) == rc < MAX_RETRIES

\* PollerOutcome with no retry after an exception of requests
PollerOutcome_ErrorsGiveUp(r, rc) ==
    IF r.kind \in RequestExceptions
    THEN [next |-> "return", value |-> PyNone]
    ELSE IF r.body.t # "dict"
    THEN [next |-> "raise", value |-> PyNone]
    ELSE IF NotAccepted(Get(r.body, "responseStatusCode", PyNone))
    THEN IF RetryLeft(rc) THEN [next |-> "retry", value |-> PyNone]
                          ELSE [next |-> "return", value |-> PyNone]
    ELSE [next |-> "return", value |-> r.body]

\* lines 86-111: what one attempt does with what its GET got:
\* "retry" (sleep, then call again), "return" (with value), or "raise".
PollerOutcome(r, rc) ==
    IF r.kind \in RequestExceptions
    THEN IF RetryLeft(rc) THEN [next |-> "retry", value |-> PyNone]
                          ELSE [next |-> "return", value |-> PyNone]
    ELSE IF r.body.t # "dict"
    THEN [next |-> "raise", value |-> PyNone]   \* data.get: AttributeError
    ELSE IF NotAccepted(Get(r.body, "responseStatusCode", PyNone))
    THEN IF RetryLeft(rc) THEN [next |-> "retry", value |-> PyNone]
                          ELSE [next |-> "return", value |-> PyNone]
    ELSE [next |-> "return", value |-> r.body]

---------------------------------------------------------------------------
(* check_facilities *)

\* An insertion-ordered dict is the sequence of its [key, value] items.
HasKey(d, k) == \E i \in DOMAIN d : d[i].key = k
Lookup(d, k) == d[CHOOSE i \in DOMAIN d : d[i].key = k].value

\* SetItem with a new key put before the others
SetItem_Prepend(d, k, v) ==
    IF HasKey(d, k)
    THEN [i \in DOMAIN d |-> IF d[i].key = k THEN [key |-> k, value |-> v] ELSE d[i]]
    ELSE <<[key |-> k, value |-> v]>> \o d

\* d[k] = v
SetItem(d, k, v) ==
    IF HasKey(d, k)
    THEN [i \in DOMAIN d |-> IF d[i].key = k THEN [key |-> k, value |-> v] ELSE d[i]]
    ELSE Append(d, [key |-> k, value |-> v])

\* Record with nothing recorded from a payload whose status is the sentinel
Record_SkipSentinel(agg, facility, ds, slots, payload) ==
    LET dates == IF HasKey(agg, facility) THEN Lookup(agg, facility) ELSE <<>>
        entry == [slots |-> slots,
                  outletDivision |->
                      Get(Get(payload, "response", EmptyDict),
                          "outletDivison", PyStr("")),
                  price |->
                      Get(Get(payload, "response", EmptyDict),
                          "price", EmptyDict)]
    IN  IF Get(payload, "responseStatusCode", PyNone) \in {PyInt(2008), PyStr("2008")}
        THEN agg
        ELSE SetItem(agg, facility, SetItem(dates, ds, entry))

\* lines 192-196: all_available_slots[facility][date_str] = {...}; reading
\* all_available_slots[facility] creates the facility's empty mapping first.
Record(agg, facility, ds, slots, payload) ==
    LET dates == IF HasKey(agg, facility) THEN Lookup(agg, facility) ELSE <<>>
        entry == [slots |-> slots,
                  outletDivision |->
                      Get(Get(payload, "response", EmptyDict),
                          "outletDivison", PyStr("")),
                  price |->
                      Get(Get(payload, "response", EmptyDict),
                          "price", EmptyDict)]
    IN  SetItem(agg, facility, SetItem(dates, ds, entry))

\* Recorded with the test of line 191 left out
Recorded_Always(agg, facility, ds, slots, payload) ==
    Record(agg, facility, ds, slots, payload)

\* lines 191-196: `if available_slots:` guards the write, so that
\* all_available_slots[facility] is not read, and the key not made, otherwise
Recorded(agg, facility, ds, slots, payload) ==
    IF slots # <<>> THEN Record(agg, facility, ds, slots, payload) ELSE agg

\* IsSentinel without the comparison with "2008"
IsSentinel_NumberOnly(status_code) == status_code = PyInt(2008)

\* line 204: the sentinel test
IsSentinel(status_code) == status_code = PyStr("2008") \/ status_code = PyInt(2008)

\* LimitReached as the comment of line 211 words it: stop after 5 days
LimitReached_FiveDays(n) == n >= SAFETY_LIMIT

\* line 212: the safety limit
LimitReached(n) == n > SAFETY_LIMIT

\* The number of date entries of the aggregate.
RECURSIVE EntryCount(_)
EntryCount(agg) ==
    IF agg = <<>> THEN 0 ELSE Len(Head(agg).value) + EntryCount(Tail(agg))

---------------------------------------------------------------------------
(* The run of check_facilities, one step per request or sleep *)

\* The most responses carrying an available slot the booking API gives in a run.
MaxFound == 1

\* The days a run starts on: each window of six days crosses the end of a
\* month, of a leap year's February, or of a year.
Starts == {[y |-> 2025, m |-> 1, d |-> 28], [y |-> 2024, m |-> 2, d |-> 26],
           [y |-> 2024, m |-> 12, d |-> 29]}

\* The day a whole run starts on, and the formatter is applied on.
MainStarts == {[y |-> 2025, m |-> 1, d |-> 28]}

\* Whether the poller would return r as a payload the parser finds a slot in.
CarriesSlot(r) ==
    /\ r.kind = "json"
    /\ r.body.t = "dict"
    /\ "response" \in DOMAIN r.body.v
    /\ r.body.v["response"] = FreeResponse

NoStop == [what |-> "none", f |-> 0]

ParseIdle == response_data = PyNone /\ available_slots = <<>>

FormatIdle == all_slots = <<>> /\ lines = <<>> /\ summary = <<>>

MainIdle == file = PyNone /\ caller = "none" /\ notified = <<>>

NotifyIdle ==
    /\ TELEGRAM_BOT_TOKEN = PyNone
    /\ TELEGRAM_CHAT_ID = PyNone
    /\ message = <<>>
    /\ messages = <<>>
    /\ msg_i = 0
    /\ posts = <<>>
    /\ result = PyNone

ScanIdle ==
    /\ fi = 0
    /\ now = [y |-> 2025, m |-> 1, d |-> 1]
    /\ current_date = [y |-> 2025, m |-> 1, d |-> 1]
    /\ dates_checked = 0
    /\ date_str = <<>>
    /\ retry_count = 0
    /\ data = PyNone
    /\ all_available_slots = <<>>
    /\ raisedBy = "none"
    /\ resp = NoResponse
    /\ gets = 0
    /\ sleeps = 0
    /\ sleepsSince = <<>>
    /\ onlyStatus = TRUE
    /\ fdates = <<>>
    /\ stopSeen = NoStop
    /\ scanned = {}
    /\ scanOrder = <<>>
    /\ totalGets = 0
    /\ exc = PyNone

\* check_facilities is entered: line 165
ScanInit ==
    /\ pc = "for"
    /\ fi = 1
    /\ now \in Starts
    /\ current_date = now
    /\ dates_checked = 0
    /\ date_str = <<>>
    /\ retry_count = 0
    /\ data = PyNone
    /\ all_available_slots = <<>>
    /\ raisedBy = "none"
    /\ resp = NoResponse
    /\ gets = 0
    /\ sleeps = 0
    /\ sleepsSince = <<>>
    /\ onlyStatus = TRUE
    /\ fdates = <<>>
    /\ stopSeen = NoStop
    /\ scanned = {}
    /\ scanOrder = <<>>
    /\ totalGets = 0
    /\ exc = PyNone
    /\ ParseIdle
    /\ NotifyIdle
    /\ FormatIdle
    /\ MainIdle

\* lines 176-179: the while loop's head, up to the call of the poller
CallPoller(cd, dates) ==
    /\ date_str' = strftime(cd)
    /\ fdates' = Append(dates, strftime(cd))
    /\ retry_count' = 0
    /\ gets' = 0
    /\ sleeps' = 0
    /\ onlyStatus' = TRUE
    /\ pc' = "get"

\* lines 167-179: the for loop takes the next facility, or line 223 returns
ForFacility ==
    /\ pc = "for"
    /\ IF fi > Len(FACILITIES)
       THEN /\ pc' = "returned"
            /\ UNCHANGED <<current_date, dates_checked, date_str, fdates,
                           retry_count, gets, sleeps, onlyStatus, stopSeen,
                           scanOrder>>
       ELSE /\ current_date' = now
            /\ dates_checked' = 0
            /\ stopSeen' = NoStop
            /\ scanOrder' = Append(scanOrder, FACILITIES[fi])
            /\ CallPoller(now, <<>>)
    /\ UNCHANGED <<fi, now, data, all_available_slots, raisedBy, resp,
                   sleepsSince, scanned, totalGets, exc>>
    /\ UNCHANGED parseVars
    /\ UNCHANGED notifyVars
    /\ UNCHANGED formatVars
    /\ UNCHANGED mainVars

\* What the caller can see of a value the poller returns for facility index f:
\* "failure" for None, "sentinel" for a payload whose status is 2008 or "2008".
Seen(value, f, before) ==
    IF value = PyNone THEN [what |-> "failure", f |-> f]
    ELSE IF Get(value, "responseStatusCode", PyNone) \in {PyInt(2008), PyStr("2008")}
    THEN [what |-> "sentinel", f |-> f]
    ELSE before

\* lines 77-111: one attempt of the poller, its GET and what it does with it.
\* The booking API answers with one of `answers`, at most maxFound of them in a
\* run carrying an available slot; the run's requests are counted if `counted`.
AttemptWith(answers, maxFound, counted) ==
    /\ pc = "get"
    /\ \E r \in answers :
        /\ CarriesSlot(r) => EntryCount(all_available_slots) < maxFound
        /\ LET o == PollerOutcome(r, retry_count)
           IN  /\ resp' = r
               /\ gets' = gets + 1
               /\ sleepsSince' = <<>>
               /\ scanned' = scanned \cup {FACILITIES[fi]}
               /\ onlyStatus' = (onlyStatus /\ r.kind = "json"
                                 /\ r.body \in OtherPayloads)
               /\ pc' = CASE o.next = "retry" -> "retry_sleep"
                          [] o.next = "return" -> "ret"
                          [] o.next = "raise" -> "raised"
               /\ data' = IF o.next = "return" THEN o.value ELSE data
               /\ raisedBy' = IF o.next = "raise" THEN "get_facility_slots" ELSE raisedBy
               /\ exc' = IF o.next = "raise" THEN AttributeErrorOn(r.body) ELSE exc
               /\ stopSeen' = IF o.next = "return" THEN Seen(o.value, fi, stopSeen)
                              ELSE stopSeen
    /\ totalGets' = IF counted THEN totalGets + 1 ELSE totalGets
    /\ UNCHANGED <<fi, now, current_date, dates_checked, date_str, retry_count,
                   all_available_slots, sleeps, fdates, scanOrder>>
    /\ UNCHANGED parseVars
    /\ UNCHANGED notifyVars
    /\ UNCHANGED formatVars
    /\ UNCHANGED mainVars

Attempt == AttemptWith(Responses, MaxFound, FALSE)

\* lines 95-96, 107-108: time.sleep(RETRY_DELAY), then the recursive call
RetrySleep ==
    /\ pc = "retry_sleep"
    /\ sleeps' = sleeps + 1
    /\ sleepsSince' = Append(sleepsSince, RETRY_DELAY)
    /\ retry_count' = retry_count + 1
    /\ resp' = NoResponse
    /\ pc' = "get"
    /\ UNCHANGED <<fi, now, current_date, dates_checked, date_str, data,
                   all_available_slots, raisedBy, gets, onlyStatus, fdates,
                   stopSeen, scanned, scanOrder, totalGets, exc>>
    /\ UNCHANGED parseVars
    /\ UNCHANGED notifyVars
    /\ UNCHANGED formatVars
    /\ UNCHANGED mainVars

\* AfterFailure with a return in the place of the break
AfterFailure_Return == "returned"

\* lines 181-183: where `data is None` sends the scan: break, to line 220
AfterFailure == "fac_sleep"

\* lines 181-214: the loop body after the poller returned, up to a break or
\* to the sleep of line 217. The poller's frame is gone and `data` is not read
\* again before line 179 assigns it: both are dropped here.
HandleResult ==
    /\ pc = "ret"
    /\ IF data = PyNone
       THEN /\ pc' = AfterFailure
            /\ UNCHANGED <<all_available_slots, dates_checked, current_date, raisedBy,
                           exc>>
       ELSE LET status_code == Get(data, "responseStatusCode", PyNone)
                ex == extract_available_slots(data)
            IN  IF ex.raised
                THEN /\ pc' = "raised"
                     /\ raisedBy' = "extract_available_slots"
                     /\ exc' = WalkException(data.v["response"])
                     /\ UNCHANGED <<all_available_slots, dates_checked, current_date>>
                ELSE /\ all_available_slots' =
                            Recorded(all_available_slots, FACILITIES[fi],
                                     date_str, ex.value, data)
                     /\ dates_checked' = dates_checked + 1
                     /\ raisedBy' = raisedBy
                     /\ exc' = exc
                     /\ IF IsSentinel(status_code)
                        THEN /\ pc' = "fac_sleep"
                             /\ current_date' = current_date
                        ELSE /\ current_date' = NextDay(current_date)
                             /\ pc' = IF LimitReached(dates_checked + 1)
                                      THEN "fac_sleep" ELSE "date_sleep"
    /\ data' = PyNone
    /\ resp' = NoResponse
    /\ retry_count' = 0
    /\ gets' = 0
    /\ sleeps' = 0
    /\ onlyStatus' = TRUE
    /\ UNCHANGED <<fi, now, date_str, sleepsSince, fdates, stopSeen, scanned,
                   scanOrder, totalGets>>
    /\ UNCHANGED parseVars
    /\ UNCHANGED notifyVars
    /\ UNCHANGED formatVars
    /\ UNCHANGED mainVars

\* line 217, then lines 176-179 of the next iteration
DateSleep ==
    /\ pc = "date_sleep"
    /\ sleepsSince' = Append(sleepsSince, DELAY_BETWEEN_REQUESTS)
    /\ CallPoller(current_date, fdates)
    /\ UNCHANGED <<fi, now, current_date, dates_checked, data, all_available_slots,
                   raisedBy, resp, stopSeen, scanned, scanOrder, totalGets, exc>>
    /\ UNCHANGED parseVars
    /\ UNCHANGED notifyVars
    /\ UNCHANGED formatVars
    /\ UNCHANGED mainVars

\* FacilitySleep with the for loop advancing and no sleep
FacilitySleep_Skipped ==
    /\ pc = "fac_sleep"
    /\ fi' = fi + 1
    /\ pc' = "for"
    /\ UNCHANGED <<now, current_date, dates_checked, date_str, retry_count, data,
                   all_available_slots, raisedBy, resp, gets, sleeps, onlyStatus,
                   fdates, stopSeen, scanned, scanOrder, totalGets, exc, sleepsSince>>
    /\ UNCHANGED parseVars
    /\ UNCHANGED notifyVars
    /\ UNCHANGED formatVars
    /\ UNCHANGED mainVars

\* lines 220-221: the sleep after a facility's scan, then the for loop advances
FacilitySleep ==
    /\ pc = "fac_sleep"
    /\ sleepsSince' = Append(sleepsSince, DELAY_BETWEEN_REQUESTS * 2)
    /\ fi' = fi + 1
    /\ pc' = "for"
    /\ UNCHANGED <<now, current_date, dates_checked, date_str, retry_count, data,
                   all_available_slots, raisedBy, resp, gets, sleeps, onlyStatus,
                   fdates, stopSeen, scanned, scanOrder, totalGets, exc>>
    /\ UNCHANGED parseVars
    /\ UNCHANGED notifyVars
    /\ UNCHANGED formatVars
    /\ UNCHANGED mainVars

ScanNext == ForFacility \/ Attempt \/ RetrySleep \/ HandleResult \/ DateSleep \/ FacilitySleep

SpecScan == ScanInit /\ [][ScanNext]_vars

\* What the booking API answers in a run whose requests are counted: an
\* exception of requests, a JSON array, a payload with a non-accepted status,
\* one with status 200 and no available slot, the sentinel.
CountAnswers ==
    {Failed("ConnectionError"), Decoded(PyList(<<>>)),
     Decoded(MkPayload(PyInt(500), Absent)),
     Decoded(MkPayload(PyInt(200), BookedResponse)),
     Decoded(MkPayload(PyInt(2008), Absent))}

CountAttempt == AttemptWith(CountAnswers, 0, TRUE)

CountNext ==
    \/ ForFacility \/ CountAttempt \/ RetrySleep \/ HandleResult \/ DateSleep
    \/ FacilitySleep

\* The script is one thread: a GET returns or times out (REQUEST_TIMEOUT), a
\* sleep ends, a loop body runs to its end; a step that can be taken is taken.
SpecCount == ScanInit /\ [][CountNext]_vars /\ WF_vars(CountNext)

---------------------------------------------------------------------------
(* extract_available_slots applied to bounded payloads *)

\* The most slots, and the most resources, of a parsed payload.
MaxSlots == 3
MaxResources == 2

\* A slot's two availability fields: [a |-> isAvailable, s |-> availabilityStatus].
SlotKinds ==
    {[a |-> PyBool(TRUE),  s |-> PyStr("Booked")],
     [a |-> PyBool(FALSE), s |-> PyStr("Available")],
     [a |-> PyBool(FALSE), s |-> PyStr("Booked")],
     [a |-> PyBool(TRUE),  s |-> PyStr("Available")],
     [a |-> Absent,        s |-> PyStr("Available")],
     [a |-> Absent,        s |-> Absent]}

KindLists(n) == UNION {[1..k -> SlotKinds] : k \in 0..n}

\* The lists of at most m resources holding at most n slots together.
RECURSIVE Shapes(_, _)
Shapes(n, m) ==
    IF m = 0 THEN {<<>>}
    ELSE {<<>>} \cup UNION {{<<sl>> \o rest : rest \in Shapes(n - Len(sl), m - 1)}
                            : sl \in KindLists(n)}

\* Slot j of resource i is labelled by its place.
Label(i, j) == PyStr(ToString(i) \o "." \o ToString(j))
CourtName(i) == PyStr("Court " \o ToString(i))

ResourceOf(shape, i) ==
    MkResource(CourtName(i),
               PyList([j \in 1..Len(shape[i]) |->
                          MkSlot(shape[i][j].a, shape[i][j].s, Label(i, j),
                                 PyBool(j = 1))]))

PayloadOf(shape) ==
    MkPayload(PyInt(200),
              MkDict([resourceList |-> PyList([i \in 1..Len(shape) |-> ResourceOf(shape, i)])]))

ParseInputs ==
    {PyNone, EmptyDict, MkPayload(PyInt(200), Absent), MkPayload(PyInt(200), PyNone),
     MkPayload(PyInt(200), EmptyDict)}
    \cup {PayloadOf(shape) : shape \in Shapes(MaxSlots, MaxResources)}

ParseInit ==
    /\ pc = "parse"
    /\ response_data \in ParseInputs
    /\ available_slots = <<>>
    /\ ScanIdle
    /\ NotifyIdle
    /\ FormatIdle
    /\ MainIdle

\* lines 113-146
Extract ==
    /\ pc = "parse"
    /\ LET ex == extract_available_slots(response_data)
       IN  /\ available_slots' = ex.value
           /\ pc' = IF ex.raised THEN "parse_raised" ELSE "parsed"
    /\ UNCHANGED response_data
    /\ UNCHANGED scanVars
    /\ UNCHANGED notifyVars
    /\ UNCHANGED formatVars
    /\ UNCHANGED mainVars

ParseNext == Extract

SpecParse == ParseInit /\ [][ParseNext]_vars

---------------------------------------------------------------------------
(* send_telegram_message *)

\* The most full chunks of a message.
MaxFull == 2

\* Slice with its end included
Slice_EndIncluded(s, a, b) == SubSeq(s, a + 1, IF b + 1 < Len(s) THEN b + 1 ELSE Len(s))

\* message[a:b]
Slice(s, a, b) == SubSeq(s, a + 1, IF b < Len(s) THEN b ELSE Len(s))

\* range(0, n, step)
Range0(n, step) == {i \in 0..n : i < n /\ i % step = 0}

\* line 41: [message[i:i+max_length] for i in range(0, len(message), max_length)]
Chunks(m) ==
    [k \in 1..Cardinality(Range0(Len(m), max_length)) |->
        Slice(m, (k - 1) * max_length, (k - 1) * max_length + max_length)]

\* A text of n characters: printable character codes that vary with the place.
Text(n) == [i \in 1..n |-> 32 + ((i * i) % 95)]

MessageLengths ==
    {n \in {k * max_length + e : k \in 0..MaxFull, e \in {-1, 0, 1}} : n >= 0}
    \cup {9000}

\* os.environ.get: None when the variable is unset, else its string
EnvValues == {PyNone, PyStr(""), PyStr("secret")}

NotifyInit ==
    /\ pc = "send"
    /\ TELEGRAM_BOT_TOKEN \in EnvValues
    /\ TELEGRAM_CHAT_ID \in EnvValues
    /\ message \in {Text(n) : n \in MessageLengths}
    /\ messages = <<>>
    /\ msg_i = 0
    /\ posts = <<>>
    /\ result = PyNone
    /\ ScanIdle
    /\ ParseIdle
    /\ FormatIdle
    /\ MainIdle

\* NotConfigured with `and` for `or`
NotConfigured_Both(token, chat_id) == ~Truthy(token) /\ ~Truthy(chat_id)

\* line 33: the credentials test
NotConfigured(token, chat_id) == ~Truthy(token) \/ ~Truthy(chat_id)

\* lines 33-41: the credentials test and the split of the message
Send ==
    /\ pc = "send"
    /\ IF NotConfigured(TELEGRAM_BOT_TOKEN, TELEGRAM_CHAT_ID)
       THEN /\ result' = PyBool(FALSE)
            /\ pc' = "sent"
            /\ UNCHANGED <<messages, msg_i>>
       ELSE /\ messages' = Chunks(message)
            /\ msg_i' = 1
            /\ pc' = "post"
            /\ UNCHANGED result
    /\ UNCHANGED <<TELEGRAM_BOT_TOKEN, TELEGRAM_CHAT_ID, message, posts>>
    /\ UNCHANGED scanVars
    /\ UNCHANGED parseVars
    /\ UNCHANGED formatVars
    /\ UNCHANGED mainVars

\* What requests.post and raise_for_status can do with one chunk.
PostOutcomes == {"ok", "ConnectionError", "HTTPError"}

\* AfterPost with the failure logged and the loop going on
AfterPost_GoesOn(outcome) == "post"

\* lines 50-56: where the loop goes after a post: on, or out with False
AfterPost(outcome) == IF outcome = "ok" THEN "post" ELSE "sent"

\* lines 43-56: one iteration of the loop over the chunks
Post ==
    /\ pc = "post"
    /\ msg_i <= Len(messages)
    /\ \E outcome \in PostOutcomes :
        /\ posts' = Append(posts, [chunk |-> msg_i, text |-> messages[msg_i],
                                 outcome |-> outcome])
        /\ pc' = AfterPost(outcome)
        /\ IF AfterPost(outcome) = "post"
           THEN msg_i' = msg_i + 1 /\ UNCHANGED result
           ELSE result' = PyBool(FALSE) /\ UNCHANGED msg_i
    /\ UNCHANGED <<TELEGRAM_BOT_TOKEN, TELEGRAM_CHAT_ID, message, messages>>
    /\ UNCHANGED scanVars
    /\ UNCHANGED parseVars
    /\ UNCHANGED formatVars
    /\ UNCHANGED mainVars

\* line 58: the loop is over
ReturnTrue ==
    /\ pc = "post"
    /\ msg_i > Len(messages)
    /\ result' = PyBool(TRUE)
    /\ pc' = "sent"
    /\ UNCHANGED <<TELEGRAM_BOT_TOKEN, TELEGRAM_CHAT_ID, message, messages, msg_i, posts>>
    /\ UNCHANGED scanVars
    /\ UNCHANGED parseVars
    /\ UNCHANGED formatVars
    /\ UNCHANGED mainVars

NotifyNext == Send \/ Post \/ ReturnTrue

SpecNotify == NotifyInit /\ [][NotifyNext]_vars

---------------------------------------------------------------------------
(* create_telegram_summary and format_facility_name *)

\* lines 150-158: names.get(facility, facility)
format_facility_name(facility) ==
    CASE facility = "teckgheecc_BADMINTONCOURTS" -> "Teck Ghee CC"
      [] facility = "BidadariCC_BADMINTONCOURTS" -> "Bidadari CC"
      [] facility = "kallangcc_BADMINTONCOURTS" -> "Kallang CC"
      [] facility = "braddellheightscc_BADMINTONCOURTS" -> "Braddell Heights CC"
      [] facility = "canberracc_BADMINTONCOURTS" -> "Canberra CC"
      [] facility = "potongpasircc_BADMINTONCOURTS" -> "Potong Pasir CC"
      [] OTHER -> facility

\* sorted(): items [k, v] in ascending order of k, a str. The keys of a dict
\* differ, so that no two items are compared by their values.
RECURSIVE Insort(_, _)
Insort(item, sorted) ==
    IF sorted = <<>> THEN <<item>>
    ELSE IF LexLess(item.k, Head(sorted).k) THEN <<item>> \o sorted
    ELSE <<Head(sorted)>> \o Insort(item, Tail(sorted))

RECURSIVE Sorted(_)
Sorted(items) ==
    IF items = <<>> THEN <<>>
    ELSE Insort(items[Len(items)], Sorted(SubSeq(items, 1, Len(items) - 1)))

\* line 234: sorted(all_slots.items()); a facility code is a str
SortedFacilities(agg) ==
    LET s == Sorted([i \in DOMAIN agg |-> [k |-> Chars(agg[i].key), v |-> agg[i]]])
    IN  [i \in DOMAIN s |-> s[i].v]

\* SortedDates with the items left in the order of their insertion
SortedDates_AsInserted(dates) == dates

\* line 240: sorted(dates.items()); date_str is the str strftime made
SortedDates(dates) ==
    LET s == Sorted([i \in DOMAIN dates |-> [k |-> dates[i].key, v |-> dates[i]]])
    IN  [i \in DOMAIN s |-> s[i].v]

\* lines 247-249: the keys of `courts`, in the order of their insertion
RECURSIVE CourtKeys(_)
CourtKeys(slots) ==
    IF slots = <<>> THEN <<>>
    ELSE <<Head(slots).court>>
         \o CourtKeys(SelectSeq(Tail(slots), LAMBDA x : x.court # Head(slots).court))

\* lines 254-255
SlotLine(slot) ==
    Chars("    ") \o (IF Truthy(slot.isPeak) THEN <<Star>> ELSE Chars("  "))
    \o Chars(" ") \o Str(slot.time)

\* lines 251-255
CourtLines(court, slots) ==
    LET court_slots == SelectSeq(slots, LAMBDA x : x.court = court)
    IN  <<Chars("  ") \o Str(court) \o Chars(":")>>
        \o [j \in DOMAIN court_slots |-> SlotLine(court_slots[j])]

\* lines 241-255: the lines of one date of a facility
DateLines(ds, date_data) ==
    LET keys == CourtKeys(date_data.slots)
    IN  <<<<NL, TearOff>> \o Chars(" <b>") \o ds \o Chars("</b>")>>
        \o Flatten([c \in DOMAIN keys |-> CourtLines(keys[c], date_data.slots)])

\* lines 235-255: the lines of one facility
FacilityLines(facility, dates) ==
    IF dates = <<>> THEN <<>>
    ELSE LET sd == SortedDates(dates)
         IN  <<<<NL>> \o Chars("<b>") \o <<Office>> \o Chars(" ")
               \o Chars(format_facility_name(facility)) \o Chars("</b>")>>
             \o Flatten([j \in DOMAIN sd |-> DateLines(sd[j].key, sd[j].value)])

\* TotalSlots counting the dates in the place of their slots
RECURSIVE TotalSlots_Dates(_)
TotalSlots_Dates(agg) ==
    IF agg = <<>> THEN 0 ELSE Len(Head(agg).value) + TotalSlots_Dates(Tail(agg))

\* line 257: the sum of len(slots) over the dates of one facility
RECURSIVE SlotsOfDates(_)
SlotsOfDates(dates) ==
    IF dates = <<>> THEN 0
    ELSE Len(Head(dates).value.slots) + SlotsOfDates(Tail(dates))

\* lines 231, 257: total_slots when the loops are over
RECURSIVE TotalSlots(_)
TotalSlots(agg) ==
    IF agg = <<>> THEN 0
    ELSE SlotsOfDates(Head(agg).value) + TotalSlots(Tail(agg))

\* lines 232, 236: facilities_with_slots when the loops are over
FacilitiesWithSlots(agg) == Len(SelectSeq(agg, LAMBDA it : it.value # <<>>))

\* lines 259-262
TrailingLine(total_slots, facilities_with_slots) ==
    IF total_slots = 0
    THEN <<NL, Cross>> \o Chars(" <b>No available slots found</b>")
    ELSE <<NL, Tick>> \o Chars(" <b>Total: ") \o Decimal(total_slots)
         \o Chars(" slots across ") \o Decimal(facilities_with_slots)
         \o Chars(" facilities</b>")

\* The time of day datetime.now() answers at line 229.
ClockTimes == {[h |-> 9, mi |-> 5]}

\* strftime('%d/%m/%Y %H:%M')
Stamp(dt, t) ==
    strftime(dt) \o Chars(" ") \o <<Digit(t.h \div 10), Digit(t.h % 10)>>
    \o Chars(":") \o <<Digit(t.mi \div 10), Digit(t.mi % 10)>>

\* lines 225-266: [lines, text], `lines` at line 266 and the str returned
create_telegram_summary(agg, dt, t) ==
    LET sf == SortedFacilities(agg)
        ls == << <<Badminton>> \o Chars(" <b>OnePA Badminton Slots Available</b> ")
                 \o <<Badminton>>,
                 <<Calendar>> \o Chars(" Checked on: ") \o Stamp(dt, t) \o <<NL>> >>
              \o Flatten([i \in DOMAIN sf |-> FacilityLines(sf[i].key, sf[i].value)])
              \o <<TrailingLine(TotalSlots(agg), FacilitiesWithSlots(agg))>>
              \o << <<NL, Star>> \o Chars(" = Peak hours") >>
    IN  [lines |-> ls, text |-> Join(ls, <<NL>>)]

\* The most date entries of an aggregate the formatter is applied to, and how
\* many facilities, the first of FACILITIES, they are entries of.
MaxListed == 2
ListedFacilities == 3

\* A payload with three available slots on two courts.
ThreeFree ==
    MkPayload(PyInt(200),
        MkDict([resourceList |-> PyList(<<
                    MkResource(PyStr("Court 1"),
                        PyList(<<MkSlot(PyBool(TRUE), Absent,
                                        PyStr("7:00 PM - 8:00 PM"), PyBool(TRUE)),
                                 MkSlot(PyBool(FALSE), PyStr("Available"),
                                        PyStr("8:00 PM - 9:00 PM"), PyBool(FALSE))>>)),
                    MkResource(PyStr("Court 2"),
                        PyList(<<MkSlot(PyBool(TRUE), PyStr("Available"),
                                        PyStr("7:00 PM - 8:00 PM"), PyBool(TRUE))>>))>>),
                outletDivison |-> PyStr("CC"),
                price |-> MkDict([peak |-> PyInt(7)])]))

\* Payloads the parser finds a slot in.
ListedPayloads == {MkPayload(PyInt(200), FreeResponse), ThreeFree}

\* The aggregates check_facilities can have built when it started on day dt:
\* it goes through the facilities in the order of FACILITIES and through the
\* six days from dt on, and records what the parser found in a payload. c
\* numbers the (facility, day) pairs in that order; n entries may be added.
RECURSIVE AggsFrom(_, _, _, _)
AggsFrom(c, n, agg, dt) ==
    IF c > ListedFacilities * (SAFETY_LIMIT + 1) \/ n = 0 THEN {agg}
    ELSE AggsFrom(c + 1, n, agg, dt)
         \cup UNION {AggsFrom(c + 1, n - 1,
                              Record(agg, FACILITIES[((c - 1) \div (SAFETY_LIMIT + 1)) + 1],
                                     strftime(DaysAfter(dt, (c - 1) % (SAFETY_LIMIT + 1))),
                                     extract_available_slots(p).value, p),
                              dt)
                     : p \in ListedPayloads}

\* No call of check_facilities is under way: its locals, the poller's and
\* what was observed of them have their idle values.
ScanFrameIdle ==
    /\ fi = 0
    /\ current_date = [y |-> 2025, m |-> 1, d |-> 1]
    /\ dates_checked = 0
    /\ date_str = <<>>
    /\ retry_count = 0
    /\ data = PyNone
    /\ all_available_slots = <<>>
    /\ resp = NoResponse
    /\ gets = 0
    /\ sleeps = 0
    /\ sleepsSince = <<>>
    /\ onlyStatus = TRUE
    /\ fdates = <<>>
    /\ stopSeen = NoStop
    /\ scanned = {}
    /\ scanOrder = <<>>
    /\ totalGets = 0

ScanLocalsIdle == ScanFrameIdle /\ raisedBy = "none" /\ exc = PyNone

\* create_telegram_summary is called: line 225
FormatInit ==
    /\ pc = "format"
    /\ now \in MainStarts
    /\ all_slots \in AggsFrom(1, MaxListed, <<>>, now)
    /\ lines = <<>>
    /\ summary = <<>>
    /\ ScanLocalsIdle
    /\ ParseIdle
    /\ NotifyIdle
    /\ MainIdle

\* lines 227-266
Format ==
    /\ pc = "format"
    /\ \E t \in ClockTimes :
        LET r == create_telegram_summary(all_slots, now, t)
        IN  /\ lines' = r.lines
            /\ summary' = r.text
    /\ pc' = "formatted"
    /\ UNCHANGED all_slots
    /\ UNCHANGED scanVars
    /\ UNCHANGED parseVars
    /\ UNCHANGED notifyVars
    /\ UNCHANGED mainVars

FormatNext == Format

SpecFormat == FormatInit /\ [][FormatNext]_vars

---------------------------------------------------------------------------
(* The run of the script: __main__, with save_results *)

\* The most date entries of the aggregate of a whole run, and how many
\* facilities, the first of FACILITIES, the booking API has an available slot at.
MaxEntries == 2
FreeFacilities == 2

\* What the booking API answers in a whole run: an exception of requests, a
\* JSON array, a payload with no available slot, one with an available slot,
\* the sentinel.
MainAnswers ==
    {Failed("ConnectionError"), Decoded(PyList(<<>>)),
     Decoded(MkPayload(PyInt(200), BookedResponse)),
     Decoded(MkPayload(PyInt(200), FreeResponse)),
     Decoded(MkPayload(PyInt(2008), Absent))}

\* json.dump of a value the API gave: the JSON value written
RECURSIVE JsonOf(_)
JsonOf(v) ==
    CASE v.t = "none" -> [j |-> "null"]
      [] v.t = "bool" -> [j |-> IF v.v THEN "true" ELSE "false"]
      [] v.t = "int" -> [j |-> "number", v |-> v.v]
      [] v.t = "str" -> [j |-> "string", v |-> v.v]
      [] v.t = "list" -> [j |-> "array", v |-> [i \in DOMAIN v.v |-> JsonOf(v.v[i])]]
      [] v.t = "dict" -> [j |-> "object", v |-> [k \in DOMAIN v.v |-> JsonOf(v.v[k])]]

\* json.dump of a slot record and of a date entry
SlotJson(slot) ==
    [j |-> "object",
     v |-> [court |-> JsonOf(slot.court), time |-> JsonOf(slot.time),
            startTime |-> JsonOf(slot.startTime), endTime |-> JsonOf(slot.endTime),
            isPeak |-> JsonOf(slot.isPeak)]]

EntryJson(entry) ==
    [j |-> "object",
     v |-> [slots |-> [j |-> "array",
                       v |-> [i \in DOMAIN entry.slots |-> SlotJson(entry.slots[i])]],
            outletDivision |-> JsonOf(entry.outletDivision),
            price |-> JsonOf(entry.price)]]

\* lines 271-277: the document json.dump writes for `output`: an object with
\* one member per facility, in the order of the keys, each an object with one
\* member per date
JsonDocument(agg) ==
    [t |-> "file",
     v |-> [i \in DOMAIN agg |->
               [key |-> agg[i].key,
                value |-> [d \in DOMAIN agg[i].value |->
                              [key |-> agg[i].value[d].key,
                               value |-> EntryJson(agg[i].value[d].value)]]]]]

\* line 276: what open(filename, 'w') can do
OpenOutcomes == {"ok", "PermissionError"}

\* line 307: error_msg
ErrorMessage(e) ==
    <<Cross>> \o Chars(" <b>Error running OnePA checker</b>") \o <<NL, NL>>
    \o Chars(e.text)

\* The frame of check_facilities is gone, by its return or by an exception
\* going through it; what was observed of the scan goes with it.
ScanFrameGone ==
    /\ fi' = 0
    /\ current_date' = [y |-> 2025, m |-> 1, d |-> 1]
    /\ dates_checked' = 0
    /\ date_str' = <<>>
    /\ retry_count' = 0
    /\ data' = PyNone
    /\ all_available_slots' = <<>>
    /\ resp' = NoResponse
    /\ gets' = 0
    /\ sleeps' = 0
    /\ sleepsSince' = <<>>
    /\ onlyStatus' = TRUE
    /\ fdates' = <<>>
    /\ stopSeen' = NoStop
    /\ scanned' = {}
    /\ scanOrder' = <<>>
    /\ totalGets' = 0

\* The script starts: line 291 calls check_facilities
MainInit == ScanInit /\ now \in MainStarts

MainAttempt ==
    AttemptWith({r \in MainAnswers : CarriesSlot(r) => fi <= FreeFacilities},
                MaxEntries, FALSE)

\* send_telegram_message(text) is called. The two credentials were read from
\* the environment when the module was loaded (lines 28-29); nothing before
\* line 33 of this call depends on them, and the model draws them here.
CallNotifier(what, text) ==
    /\ TELEGRAM_BOT_TOKEN' \in EnvValues
    /\ TELEGRAM_CHAT_ID' \in EnvValues
    /\ message' = text
    /\ messages' = <<>>
    /\ msg_i' = 0
    /\ posts' = <<>>
    /\ result' = PyNone
    /\ caller' = what
    /\ notified' = Append(notified, [what |-> what, message |-> text])
    /\ pc' = "send"

\* AfterSaveError with save_results called outside the try
AfterSaveError_Uncaught == "crashed"

\* line 292 inside the try of line 290: where an exception of save_results goes
AfterSaveError == "raised"

\* lines 291-292 and 268-278: check_facilities has returned; save_results
SaveResults ==
    /\ pc = "returned"
    /\ all_slots' = all_available_slots
    /\ ScanFrameGone
    /\ \E outcome \in OpenOutcomes :
        IF outcome = "ok"
        THEN /\ file' = JsonDocument(all_available_slots)
             /\ pc' = "summary"
             /\ UNCHANGED <<raisedBy, exc>>
        ELSE /\ pc' = AfterSaveError
             /\ raisedBy' = "save_results"
             /\ exc' = [type |-> "PermissionError",
                        text |-> "[Errno 13] Permission denied: 'available_slots.json'"]
             /\ UNCHANGED file
    /\ UNCHANGED <<now, lines, summary, caller, notified>>
    /\ UNCHANGED parseVars
    /\ UNCHANGED notifyVars

\* lines 295-301: create_telegram_summary, then the notifier is called with it
Summarize ==
    /\ pc = "summary"
    /\ \E t \in ClockTimes :
        LET r == create_telegram_summary(all_slots, now, t)
        IN  /\ summary' = r.text
            /\ CallNotifier("summary", r.text)
    /\ UNCHANGED <<all_slots, lines, file>>
    /\ UNCHANGED scanVars
    /\ UNCHANGED parseVars

\* line 306: the exception leaves the try block and reaches the except
\* clause, which binds it to `e`; the frames it went through are gone
Catch ==
    /\ pc = "raised"
    /\ ScanFrameGone
    /\ pc' = "except"
    /\ UNCHANGED <<now, raisedBy, exc>>
    /\ UNCHANGED formatVars
    /\ UNCHANGED mainVars
    /\ UNCHANGED parseVars
    /\ UNCHANGED notifyVars

\* lines 307-309: the except clause builds error_msg and calls the notifier
ReportError ==
    /\ pc = "except"
    /\ CallNotifier("error", ErrorMessage(exc))
    /\ UNCHANGED file
    /\ UNCHANGED scanVars
    /\ UNCHANGED formatVars
    /\ UNCHANGED parseVars

\* AfterSummarySend with a notification that failed ending the run
AfterSummarySend_Abort(res) == IF res = PyBool(TRUE) THEN "completed" ELSE "crashed"

\* lines 301-304: after send_telegram_message(summary) returned res
AfterSummarySend(res) == "completed"

\* line 309: after send_telegram_message(error_msg) returned
AfterErrorSend == "ended"

\* lines 301-304, 309: the notifier has returned to the script
NotifierReturned ==
    /\ pc = "sent"
    /\ caller # "none"
    /\ pc' = IF caller = "summary" THEN AfterSummarySend(result) ELSE AfterErrorSend
    /\ caller' = "none"
    /\ UNCHANGED <<file, notified>>
    /\ UNCHANGED scanVars
    /\ UNCHANGED parseVars
    /\ UNCHANGED notifyVars
    /\ UNCHANGED formatVars

MainNext ==
    \/ ForFacility \/ MainAttempt \/ RetrySleep \/ HandleResult \/ DateSleep
    \/ FacilitySleep \/ SaveResults \/ Summarize \/ Catch \/ ReportError
    \/ Send \/ Post \/ ReturnTrue \/ NotifierReturned

SpecMain == MainInit /\ [][MainNext]_vars

---------------------------------------------------------------------------
(* Properties of get_facility_slots and check_facilities, under SpecScan *)

\* C1: a call of get_facility_slots whose every attempt gets a decoded payload
\* with a status outside {200, "200", 2008, "2008"} issues exactly 4 GET
\* requests, sleeps 20 s exactly once before each retry (3 sleeps, none after
\* the last attempt), and returns None.
C1_RetriesExhausted ==
    /\ (pc = "ret" /\ onlyStatus) =>
            (data = PyNone /\ gets = 4 /\ sleeps = 3 /\ sleepsSince = <<>>)
    /\ (pc = "retry_sleep" /\ onlyStatus) =>
            (gets <= 3 /\ sleeps = gets - 1 /\ sleepsSince = <<>>)
    /\ (pc = "get" /\ onlyStatus /\ gets > 0) =>
            (sleeps = gets /\ sleepsSince = <<20>>)

C1_Witness == pc = "ret" /\ onlyStatus /\ data = PyNone /\ gets = 4

AcceptedStatus(r) ==
    /\ r.kind = "json"
    /\ r.body.t = "dict"
    /\ Get(r.body, "responseStatusCode", PyNone)
           \in {PyInt(200), PyStr("200"), PyInt(2008), PyStr("2008")}

\* C2: an attempt whose payload has a status in {200, "200", 2008, "2008"}
\* returns that payload on that same attempt: the call has returned it, with
\* no sleep after the GET and no GET beyond the attempts made so far.
C2_AcceptedReturnsAtOnce ==
    AcceptedStatus(resp) =>
        (pc = "ret" /\ data = resp.body /\ sleepsSince = <<>> /\ gets = sleeps + 1)

C2_Witness ==
    /\ AcceptedStatus(resp)
    /\ Get(resp.body, "responseStatusCode", PyNone) = PyStr("2008")
    /\ gets = 3
    /\ data = resp.body

RequestLevelFailure(r) ==
    \/ r.kind \in {"ConnectionError", "HTTPError", "JSONDecodeError"}
    \/ /\ r.kind = "json"
       /\ (r.body.t # "dict" \/ "responseStatusCode" \notin DOMAIN r.body.v)

\* C3: no exception escapes get_facility_slots: after a network error, a
\* non-2xx answer or a malformed payload (a body that is not JSON, a JSON
\* value that is no object, an object without responseStatusCode) the call
\* retries after the delay, and returns None once the 3 retries are used up.
C3_NoExceptionEscapesPoller ==
    /\ raisedBy # "get_facility_slots"
    /\ RequestLevelFailure(resp) =>
            IF gets <= 3 THEN pc = "retry_sleep" ELSE (pc = "ret" /\ data = PyNone)

DatesOf(dates) == {dates[i] : i \in DOMAIN dates}

GetIssued == gets' = gets + 1

\* C5: once the poller has returned a payload with status 2008 or "2008" for
\* a facility, no GET is issued for that facility again: none while the
\* observation stands, the observation gives way only once the loop is at a
\* later facility, and the loop never goes back.
C5_NoRequestAfterSentinel ==
    /\ [][GetIssued => ~(stopSeen.what = "sentinel" /\ stopSeen.f = fi)]_vars
    /\ [][(stopSeen.what = "sentinel" /\ stopSeen' # stopSeen) => fi > stopSeen.f]_vars
    /\ [][fi' >= fi]_vars

C5_Witness ==
    /\ stopSeen.what = "sentinel"
    /\ Len(fdates) = 1
    /\ pc = "for"
    /\ fi = stopSeen.f + 1

\* C6: when the poller returns None for a date of facility f, no later GET is
\* issued for f, the aggregate keeps every entry it holds, nothing is raised,
\* and the run goes on: the observation gives way only when the scan of the
\* next facility calls the poller for today's date, every scan starts at
\* today's date, and check_facilities returns only once a GET was issued for
\* every facility of FACILITIES.
C6_FailureStopsOnlyThatFacility ==
    /\ [][GetIssued => ~(stopSeen.what = "failure" /\ stopSeen.f = fi)]_vars
    /\ [][(stopSeen.what = "failure" /\ stopSeen' # stopSeen) =>
            /\ fi = stopSeen.f + 1
            /\ fdates' = <<strftime(now)>>
            /\ date_str' = strftime(now)
            /\ gets' = 0]_vars
    /\ [][fi' >= fi]_vars
    /\ [][(pc = "ret" /\ data = PyNone) =>
            /\ all_available_slots' = all_available_slots
            /\ raisedBy' = "none"
            /\ pc' # "raised"]_vars
    /\ [](fdates # <<>> => fdates[1] = strftime(now))
    /\ [](pc = "returned" => scanned = {FACILITIES[i] : i \in 1..6})

C6_Witness ==
    /\ stopSeen.what = "failure"
    /\ pc = "for"
    /\ fi = stopSeen.f + 1
    /\ fi <= 6
    /\ Len(fdates) = 3
    /\ EntryCount(all_available_slots) = 1

\* An attempt that ends in a retry or in None: an exception of requests, or a
\* payload whose status is not accepted.
FailedAttempt(r) ==
    \/ r.kind \in RequestExceptions
    \/ /\ r.kind = "json"
       /\ r.body.t = "dict"
       /\ ~AcceptedStatus(r)

\* C14: exceptions of requests and non-accepted statuses draw on one retry
\* budget: a call of get_facility_slots issues at most 4 GET requests whatever
\* the mix of its attempts' outcomes; an attempt is retried only if it failed,
\* so the call returns the payload of its first attempt with an accepted
\* status, if one of the 4 has one, and None after 4 failed attempts; when it
\* returns it has slept once less than it has issued requests.
C14_SharedRetryBudget ==
    /\ gets <= 4
    /\ sleeps <= 3
    /\ pc = "retry_sleep" => (FailedAttempt(resp) /\ gets <= 3 /\ sleeps = gets - 1)
    /\ (pc = "get" /\ gets > 0) => sleeps = gets
    /\ pc = "ret" =>
            /\ sleeps = gets - 1
            /\ IF AcceptedStatus(resp)
               THEN data = resp.body
               ELSE FailedAttempt(resp) /\ data = PyNone /\ gets = 4

\* The fourth attempt got a non-accepted status after an earlier attempt met
\* something else, an exception of requests: None after a mix of failures.
C14_Witness ==
    /\ pc = "ret"
    /\ gets = 4
    /\ sleeps = 3
    /\ data = PyNone
    /\ ~onlyStatus
    /\ resp.kind = "json"

\* C17: no two GET requests are issued back to back: before every request but
\* the first of the run the program has slept, once and since the request
\* before: 20 s if the request is a retry, 3 s if it is for the next date of
\* the same facility, 6 s if it is the first of the next facility, whichever
\* way the scan of the facility before stopped.
C17_SleepBetweenRequests ==
    [][GetIssued =>
          IF gets > 0 THEN sleepsSince = <<20>>
          ELSE IF Len(fdates) > 1 THEN sleepsSince = <<3>>
          ELSE IF scanned # {} THEN sleepsSince = <<6>>
          ELSE sleepsSince = <<>> /\ fi = 1]_vars

\* The first request for the third facility is about to be issued, 6 s after
\* the last request for the second.
C17_Witness ==
    /\ pc = "get"
    /\ gets = 0
    /\ fi = 3
    /\ Len(fdates) = 1
    /\ scanned = {FACILITIES[1], FACILITIES[2]}
    /\ sleepsSince = <<6>>

\* The (facility, date) pairs the aggregate holds an entry for.
Pairs(agg) ==
    UNION {{<<agg[i].key, agg[i].value[j].key>> : j \in DOMAIN agg[i].value}
           : i \in DOMAIN agg}

EntryOf(agg, f, d) == Lookup(Lookup(agg, f), d)

\* C16: when the poller has returned a payload for (facility, date), with
\* status 2008 as with status 200, the parser is applied to it before the scan
\* stops or goes on: the aggregate gains the entry of (facility, date) if the
\* parser found at least one slot, with exactly the slots it found, and is
\* left as it was if it found none; the aggregate changes at no other step and
\* loses no entry.
C16_EntryIffSlotFound ==
    /\ [][(pc = "ret" /\ data # PyNone /\ pc' # "raised") =>
            LET found == extract_available_slots(data).value
                here == <<FACILITIES[fi], date_str>>
            IN  IF found # <<>>
                THEN /\ Pairs(all_available_slots') = Pairs(all_available_slots) \cup {here}
                     /\ here \notin Pairs(all_available_slots)
                     /\ EntryOf(all_available_slots', here[1], here[2]).slots = found
                     /\ \A p \in Pairs(all_available_slots) :
                            EntryOf(all_available_slots', p[1], p[2])
                                = EntryOf(all_available_slots, p[1], p[2])
                ELSE all_available_slots' = all_available_slots]_vars
    /\ [][all_available_slots' # all_available_slots =>
            (pc = "ret" /\ data # PyNone /\ pc' # "raised")]_vars

\* A payload with status 2008 carried a slot: the scan of the facility has
\* stopped and the aggregate holds the entry of that date.
C16_Witness ==
    /\ pc = "fac_sleep"
    /\ stopSeen = [what |-> "sentinel", f |-> fi]
    /\ Len(fdates) = 2
    /\ <<FACILITIES[fi], date_str>> \in Pairs(all_available_slots)
    /\ Len(EntryOf(all_available_slots, FACILITIES[fi], date_str).slots) = 1

---------------------------------------------------------------------------
(* Properties of extract_available_slots, under SpecParse *)

HasResourceList(rd) ==
    /\ rd.t = "dict"
    /\ "response" \in DOMAIN rd.v
    /\ rd.v["response"].t = "dict"
    /\ "resourceList" \in DOMAIN rd.v["response"].v

ResourcesIn(rd) == rd.v["response"].v["resourceList"].v
SlotAt(rd, p) == ResourcesIn(rd)[p[1]].v["slotList"].v[p[2]]

\* The places <<resource, slot>> of a payload, and their order.
Places(rd) ==
    UNION {{<<i, j>> : j \in DOMAIN ResourcesIn(rd)[i].v["slotList"].v}
           : i \in DOMAIN ResourcesIn(rd)}
Before(p, q) == p[1] < q[1] \/ (p[1] = q[1] /\ p[2] < q[2])

\* isAvailable is true, or availabilityStatus is "Available"
Qualifies(slot) ==
    \/ ("isAvailable" \in DOMAIN slot.v /\ slot.v["isAvailable"] = PyBool(TRUE))
    \/ ("availabilityStatus" \in DOMAIN slot.v
            /\ slot.v["availabilityStatus"] = PyStr("Available"))

Qualified(rd) == {p \in Places(rd) : Qualifies(SlotAt(rd, p))}

\* C7: the result of extract_available_slots holds a slot if and only if its
\* isAvailable is true or its availabilityStatus is "Available", once each,
\* in the order of the resources and of the slots within each resource: the
\* n-th qualifying slot of the payload is the n-th record of the result.
C7_AvailableIffEitherField ==
    (pc = "parsed" /\ HasResourceList(response_data)) =>
        /\ Len(available_slots) = Cardinality(Qualified(response_data))
        /\ \A p \in Qualified(response_data) :
             LET n == Cardinality({q \in Qualified(response_data) : Before(q, p)}) + 1
             IN  /\ available_slots[n].time = SlotAt(response_data, p).v["timeRangeName"]
                 /\ available_slots[n].court =
                        ResourcesIn(response_data)[p[1]].v["resourceName"]

KindAt(rd, p) ==
    <<Get(SlotAt(rd, p), "isAvailable", Absent),
      Get(SlotAt(rd, p), "availabilityStatus", Absent)>>

\* (false, "Available") and (true, "Booked") are kept, (false, "Booked") is not.
C7_Witness ==
    /\ pc = "parsed"
    /\ HasResourceList(response_data)
    /\ Len(ResourcesIn(response_data)) = 2
    /\ Places(response_data) = {<<1, 1>>, <<2, 1>>, <<2, 2>>}
    /\ KindAt(response_data, <<1, 1>>) = <<PyBool(FALSE), PyStr("Booked")>>
    /\ KindAt(response_data, <<2, 1>>) = <<PyBool(FALSE), PyStr("Available")>>
    /\ KindAt(response_data, <<2, 2>>) = <<PyBool(TRUE), PyStr("Booked")>>
    /\ Len(available_slots) = 2
    /\ available_slots[1].time = PyStr("2.1")
    /\ available_slots[2].time = PyStr("2.2")

---------------------------------------------------------------------------
(* Properties of send_telegram_message, under SpecNotify *)

RECURSIVE TextOf(_)
TextOf(ps) == IF ps = <<>> THEN <<>> ELSE Head(ps).text \o TextOf(Tail(ps))

\* C8: with credentials present the message goes out in chunks of at most
\* 4000 characters, one call each and in order: the texts posted so far make
\* up the head of the message, the texts of a run that returned True make up
\* the whole message, every chunk but the last has exactly 4000 characters,
\* and a message of 9000 characters takes exactly 3 calls.
C8_ChunksInOrder ==
    /\ \A k \in DOMAIN posts :
         /\ Len(posts[k].text) <= 4000
         /\ k < Len(posts) => Len(posts[k].text) = 4000
    /\ Len(TextOf(posts)) <= Len(message)
    /\ TextOf(posts) = SubSeq(message, 1, Len(TextOf(posts)))
    /\ (pc = "sent" /\ result = PyBool(TRUE)) =>
            /\ TextOf(posts) = message
            /\ Len(message) = 9000 => Len(posts) = 3

C8_Witness ==
    /\ pc = "sent"
    /\ result = PyBool(TRUE)
    /\ Len(message) = 9000
    /\ Len(posts) = 3
    /\ Len(posts[3].text) = 1000

\* C9: a chunk whose post fails is the last one posted, the function has then
\* returned False, no chunk is posted twice (the k-th call posts chunk k), and
\* the function has returned True only if every chunk of the message was
\* posted with success.
C9_FailureAborts ==
    /\ \A k \in DOMAIN posts :
         posts[k].outcome # "ok" =>
            (k = Len(posts) /\ pc = "sent" /\ result = PyBool(FALSE))
    /\ \A k \in DOMAIN posts : posts[k].chunk = k
    /\ (pc = "sent" /\ result = PyBool(TRUE)) =>
            /\ \A k \in DOMAIN posts : posts[k].outcome = "ok"
            /\ Len(TextOf(posts)) = Len(message)

C9_Witness ==
    /\ Len(message) = 9000
    /\ Len(posts) = 2
    /\ posts[1].outcome = "ok"
    /\ posts[2].outcome = "HTTPError"
    /\ pc = "sent"
    /\ result = PyBool(FALSE)

AbsentOrEmpty(x) == x = PyNone \/ x = PyStr("")

\* C10: when TELEGRAM_BOT_TOKEN or TELEGRAM_CHAT_ID is absent or empty, no
\* network call is made, whatever the message, and the return value is False.
C10_NoCredentialsNoCall ==
    (AbsentOrEmpty(TELEGRAM_BOT_TOKEN) \/ AbsentOrEmpty(TELEGRAM_CHAT_ID)) =>
        /\ posts = <<>>
        /\ pc \in {"send", "sent"}
        /\ pc = "sent" => result = PyBool(FALSE)

C10_Witness ==
    /\ TELEGRAM_BOT_TOKEN = PyStr("secret")
    /\ TELEGRAM_CHAT_ID = PyStr("")
    /\ Len(message) = 9000
    /\ pc = "sent"
    /\ result = PyBool(FALSE)
    /\ posts = <<>>

---------------------------------------------------------------------------
(* Properties of create_telegram_summary, under SpecFormat *)

IsPrefix(a, b) == Len(a) <= Len(b) /\ SubSeq(b, 1, Len(a)) = a

IsFacilityHeader(line) == IsPrefix(<<NL>> \o Chars("<b>") \o <<Office>>, line)

IsDateHeader(line) == IsPrefix(<<NL, TearOff>> \o Chars(" <b>"), line)

DateHeader(dt) == <<NL, TearOff>> \o Chars(" <b>") \o strftime(dt) \o Chars("</b>")

NoSlotsLine == <<NL, Cross>> \o Chars(" <b>No available slots found</b>")

TotalLine(n, m) ==
    <<NL, Tick>> \o Chars(" <b>Total: ") \o Decimal(n) \o Chars(" slots across ")
    \o Decimal(m) \o Chars(" facilities</b>")

IsTotalLine(line) == IsPrefix(<<NL, Tick>> \o Chars(" <b>Total: "), line)

\* The slots of the entries of the (facility, date) pairs ps, counted together.
RECURSIVE SlotSum(_, _)
SlotSum(ps, agg) ==
    IF ps = {} THEN 0
    ELSE LET p == CHOOSE q \in ps : TRUE
         IN  Len(EntryOf(agg, p[1], p[2]).slots) + SlotSum(ps \ {p}, agg)

\* C13: the summary of an empty aggregate has the line "No available slots
\* found" and no facility header; the summary of an aggregate that is not
\* empty has in its place the line "Total: N slots across M facilities", N the
\* sum of the lengths of the slot lists of all entries and M the number of
\* facilities with at least one date entry. Every summary has exactly one of the
\* two lines, as its last line but one, before the legend.
C13_OneTrailingLine ==
    pc = "formatted" =>
        LET ps == Pairs(all_slots)
            trailing == {i \in DOMAIN lines :
                            lines[i] = NoSlotsLine \/ IsTotalLine(lines[i])}
        IN  /\ trailing = {Len(lines) - 1}
            /\ IF all_slots = <<>>
               THEN /\ lines[Len(lines) - 1] = NoSlotsLine
                    /\ \A i \in DOMAIN lines : ~IsFacilityHeader(lines[i])
               ELSE lines[Len(lines) - 1] =
                        TotalLine(SlotSum(ps, all_slots),
                                  Cardinality({p[1] : p \in ps}))
            /\ summary = Join(lines, <<NL>>)

\* Two facilities with four slots between them, three of them on one date.
C13_Witness ==
    /\ pc = "formatted"
    /\ Len(all_slots) = 2
    /\ Len(all_slots[1].value[1].value.slots) = 3
    /\ lines[Len(lines) - 1] = TotalLine(4, 2)

\* The places in `lines` of the date headers of one facility: those between
\* the facility header at place h and the next facility header.
DateHeadersAfter(h) ==
    {i \in DOMAIN lines :
        /\ i > h
        /\ IsDateHeader(lines[i])
        /\ \A j \in DOMAIN lines : (h < j /\ j < i) => ~IsFacilityHeader(lines[j])}

\* The date a date header shows: the 10 characters after its 6 opening ones.
ShownDate(line) == SubSeq(line, 7, 16)

\* C18: under each facility header the summary shows one header per date
\* entry of the facility, in the lexicographic order of the DD/MM/YYYY keys
\* and not in the order of the calendar: for a facility with entries for
\* 31/01/2025 and 01/02/2025, inserted in that order, the header of 01/02/2025
\* comes before the header of 31/01/2025.
C18_DateHeadersLexicographic ==
    pc = "formatted" =>
        /\ \A h \in DOMAIN lines : IsFacilityHeader(lines[h]) =>
              \A i, j \in DateHeadersAfter(h) :
                  i < j => LexLess(ShownDate(lines[i]), ShownDate(lines[j]))
        /\ Cardinality({i \in DOMAIN lines : IsDateHeader(lines[i])})
              = Cardinality(Pairs(all_slots))
        /\ \A f \in DOMAIN all_slots :
              LET dates == all_slots[f].value
                  jan31 == strftime([y |-> 2025, m |-> 1, d |-> 31])
                  feb01 == strftime([y |-> 2025, m |-> 2, d |-> 1])
              IN  (HasKey(dates, jan31) /\ HasKey(dates, feb01)) =>
                      \E i, j \in DOMAIN lines :
                          /\ i < j
                          /\ lines[i] = DateHeader([y |-> 2025, m |-> 2, d |-> 1])
                          /\ lines[j] = DateHeader([y |-> 2025, m |-> 1, d |-> 31])
                          /\ \A k \in DOMAIN lines :
                                (i < k /\ k < j) => ~IsFacilityHeader(lines[k])

\* One facility whose entries were inserted for 31/01/2025 and then for
\* 01/02/2025: its two date headers stand in the other order.
C18_Witness ==
    /\ pc = "formatted"
    /\ Len(all_slots) = 1
    /\ Len(all_slots[1].value) = 2
    /\ all_slots[1].value[1].key = strftime([y |-> 2025, m |-> 1, d |-> 31])
    /\ all_slots[1].value[2].key = strftime([y |-> 2025, m |-> 2, d |-> 1])
    /\ \E i \in DOMAIN lines :
          /\ lines[i] = DateHeader([y |-> 2025, m |-> 2, d |-> 1])
          /\ \E j \in DOMAIN lines :
                j > i /\ lines[j] = DateHeader([y |-> 2025, m |-> 1, d |-> 31])

---------------------------------------------------------------------------
(* Properties of the run of the script, under SpecMain *)

ErrorCall(e) ==
    [what |-> "error",
     message |-> <<Cross>> \o Chars(" <b>Error running OnePA checker</b>")
                 \o <<NL, NL>> \o Chars(e.text)]

\* C11: an exception raised by check_facilities or by save_results (none
\* leaves create_telegram_summary) is caught by the except clause, once: the
\* notifier is called exactly once, with the error message that ends in the
\* text of the exception, it is never called with the summary, and the run
\* ends after that call with nothing raised again.
C11_ExceptionReportedOnce ==
    /\ [](Len(notified) <= 1)
    /\ [](exc # PyNone =>
            /\ pc \in {"raised", "except", "send", "post", "sent", "ended"}
            /\ raisedBy \in {"get_facility_slots", "extract_available_slots",
                             "save_results"}
            /\ \A k \in DOMAIN notified : notified[k] = ErrorCall(exc)
            /\ summary = <<>>)
    /\ [](pc = "ended" => (exc # PyNone /\ notified = <<ErrorCall(exc)>>))
    /\ [][pc = "raised" => (pc' = "except" /\ exc' = exc /\ notified' = notified)]_vars
    /\ [][pc = "except" =>
            (pc' = "send" /\ caller' = "error" /\ message' = ErrorCall(exc).message
             /\ notified' = <<ErrorCall(exc)>>)]_vars
    /\ [][(pc = "sent" /\ caller = "error") => (pc' = "ended" /\ exc' = exc)]_vars
    /\ [](pc # "crashed")

\* save_results could not open the file: the error message was posted, in
\* one chunk, and the run has ended.
C11_Witness ==
    /\ pc = "ended"
    /\ raisedBy = "save_results"
    /\ exc # PyNone
    /\ notified = <<ErrorCall(exc)>>
    /\ result = PyBool(TRUE)
    /\ Len(posts) = 1

\* C12: the notifier is called with the summary only once save_results has
\* written the whole document; when that call returns, False as well as True,
\* the run goes to its end: nothing is raised, the notifier is not called
\* again, and the file keeps the document save_results wrote.
C12_SummaryAfterSave ==
    /\ [](\A k \in DOMAIN notified :
            notified[k].what = "summary" =>
                (file = JsonDocument(all_slots) /\ notified[k].message = summary))
    /\ [][(caller' = "summary" /\ caller # "summary") =>
            (pc = "summary" /\ file = JsonDocument(all_slots) /\ file' = file)]_vars
    /\ [][(pc = "sent" /\ caller = "summary") =>
            (pc' = "completed" /\ exc' = PyNone /\ notified' = notified)]_vars
    /\ [][file # PyNone => file' = file]_vars
    /\ [](pc = "completed" =>
            (exc = PyNone /\ Len(notified) = 1 /\ notified[1].what = "summary"
             /\ file = JsonDocument(all_slots)))

\* The summary of an aggregate with an entry could not be posted: the notifier
\* returned False and the run is complete, with the file written.
C12_Witness ==
    /\ pc = "completed"
    /\ result = PyBool(FALSE)
    /\ Len(posts) = 1
    /\ posts[1].outcome # "ok"
    /\ all_slots # <<>>
    /\ file = JsonDocument(all_slots)

\* The day a DD/MM/YYYY str names, as a number that grows with the calendar.
DayNumber(ds) ==
    LET n(i) == ds[i] - 48
    IN  (n(7) * 1000 + n(8) * 100 + n(9) * 10 + n(10)) * 10000
        + (n(4) * 10 + n(5)) * 100 + (n(1) * 10 + n(2))

FacilityIndex(f) == CHOOSE i \in DOMAIN FACILITIES : FACILITIES[i] = f

\* C15: the facilities are scanned in the order of FACILITIES; the dates passed
\* to the poller for a facility are today and the days after it, one by one,
\* none skipped and none twice; so the facility keys of the aggregate stand in
\* the order of FACILITIES and the date keys of a facility in the order of the
\* calendar.
C15_ScanAndInsertionOrder ==
    /\ scanOrder = SubSeq(FACILITIES, 1, Len(scanOrder))
    /\ pc \in {"get", "retry_sleep", "ret", "date_sleep", "fac_sleep"} =>
            (Len(scanOrder) = fi /\ fdates # <<>>)
    /\ \A i \in DOMAIN fdates : fdates[i] = strftime(DaysAfter(now, i - 1))
    /\ \A i, j \in DOMAIN all_available_slots :
            i < j => FacilityIndex(all_available_slots[i].key)
                        < FacilityIndex(all_available_slots[j].key)
    /\ \A i \in DOMAIN all_available_slots :
            LET dates == all_available_slots[i].value
            IN  \A j, k \in DOMAIN dates :
                    j < k => DayNumber(dates[j].key) < DayNumber(dates[k].key)

\* The second facility has entries for 31/01/2025 and 01/02/2025, in that order.
C15_Witness ==
    /\ pc = "returned"
    /\ scanOrder = FACILITIES
    /\ Len(all_available_slots) = 1
    /\ all_available_slots[1].key = FACILITIES[2]
    /\ Len(all_available_slots[1].value) = 2
    /\ all_available_slots[1].value[1].key = strftime([y |-> 2025, m |-> 1, d |-> 31])
    /\ all_available_slots[1].value[2].key = strftime([y |-> 2025, m |-> 2, d |-> 1])

NoEmptyEntry(agg) ==
    \A i \in DOMAIN agg :
        /\ agg[i].value # <<>>
        /\ \A j \in DOMAIN agg[i].value : agg[i].value[j].value.slots # <<>>

\* C19: the aggregate never holds an empty entry: every facility key has at
\* least one date entry and every date entry at least one slot, in
\* check_facilities, in what it returns to the script and the formatter, and
\* in the document save_results writes; a facility becomes a key only at the
\* step that records a slot found for it.
C19_NoEmptyEntries ==
    /\ [](NoEmptyEntry(all_available_slots) /\ NoEmptyEntry(all_slots))
    /\ [](file # PyNone =>
            \A i \in DOMAIN file.v :
                /\ file.v[i].value # <<>>
                /\ \A j \in DOMAIN file.v[i].value :
                      file.v[i].value[j].value.v.slots.v # <<>>)
    /\ [][\A f \in {p[1] : p \in Pairs(all_available_slots')}
                    \ {p[1] : p \in Pairs(all_available_slots)} :
            /\ pc = "ret"
            /\ f = FACILITIES[fi]
            /\ data # PyNone
            /\ extract_available_slots(data).value # <<>>]_vars

\* Slots were found for the second facility only, on two dates: the document
\* written has this one member, and no member for the other five.
C19_Witness ==
    /\ pc = "summary"
    /\ file # PyNone
    /\ Len(file.v) = 1
    /\ file.v[1].key = FACILITIES[2]
    /\ Len(file.v[1].value) = 2
    /\ Len(all_slots) = 1

---------------------------------------------------------------------------
(* Termination of check_facilities, under SpecCount *)

=============================================================================
